---- MODULE Spec2Model ----
(***************************************************************************)
(* A model of the GooGios roster cache engine (googios/roster.py) and of   *)
(* the parts of googios/calendars.py and googios/contacts.py it drives.    *)
(*                                                                         *)
(* Time is counted in whole hours.  A Python value that may be None is     *)
(* modelled as a set with at most one element: {} is None, {x} is x.       *)
(* Optional strings (email, phone) use the string None instead.            *)
(***************************************************************************)
EXTENDS Integers, Sequences, FiniteSets, TLC

VARIABLES
    now,             \* the wall clock, datetime.now(tz=pytz.UTC)
    min_end,         \* Roster.min_end
    max_start,       \* Roster.max_start, {} when "no limit"
    all_day_offset,  \* Roster.all_day_offset, in hours
    cache_timeout,   \* Roster.cache_timeout, in minutes
    _data,           \* Roster._data, {} until populated
    calendar,        \* Roster.calendar, {} until a connection succeeded
    ppl_client,      \* Roster.ppl_client
    cache_file,      \* the file at Roster.cache_fname, {} when it does not exist
    gcal,            \* the events the Google calendar holds
    contacts,        \* what a contacts query finds for each name
    last,            \* what the last operation was given, did and returned
    given,           \* the list given to merge_intervals or find_overlaps
    result,          \* what that call gave back
    saving,          \* how far a process inside _save_cache has come
    loading,         \* what a process inside load_cache has read
    run,             \* how often the reads of one process refreshed, loaded, saved
    paging           \* how far a call of Calendar.get_events has come

vars == <<now, min_end, max_start, all_day_offset, cache_timeout,
          _data, calendar, ppl_client, cache_file, gcal, contacts, last,
          given, result, saving, loading, run, paging>>

\* The variables of the interval functions and of the file access, which the
\* operations of a Roster leave alone.
utils_vars == <<given, result>>
file_vars == <<saving, loading>>

----------------------------------------------------------------------------
(* Bounds of the model and the values the environment draws from.          *)

MaxTime == 2
MaxEvents == 2
MinutesPerHour == 60
HoursPerDay == 24

None == "None"
Names == {"ann", "bob"}
Times == 0..MaxTime
CacheTimeouts == {MinutesPerHour}
AllDayOffsets == {0, 1}

Elem(S) == CHOOSE x \in S : TRUE

Range(s) == {s[i] : i \in DOMAIN s}

----------------------------------------------------------------------------
(* The external event source (the Google calendar service).                *)

\* The three shapes of an event boundary the service hands over: a timed
\* boundary, a whole-day boundary whose dateTime is null, and a whole-day
\* boundary that has no dateTime key at all.
Boundary(kind, t) ==
    CASE kind = "dateTime" -> [dateTime |-> {t}]
      [] kind = "date"     -> [dateTime |-> {}, date |-> {t}]
      [] kind = "dateOnly" -> [date |-> {t}]

Kinds == {"dateTime", "date"}

Events ==
    {[start |-> Boundary(k, s), end |-> Boundary(k, e), summary |-> n] :
        k \in Kinds, s \in Times, e \in Times, n \in Names}

\* Who is on call changes from one event to the next.
OnCall(i) == IF i % 2 = 1 THEN "ann" ELSE "bob"

\* The instant the service itself files a boundary under.
RawInstant(b) ==
    IF "dateTime" \in DOMAIN b /\ b.dateTime # {}
    THEN Elem(b.dateTime)
    ELSE Elem(b.date)

\* What the calendar may hold when it is asked: at most MaxEvents events,
\* each ending after it starts, in the order of their start.
Calendars ==
    {r \in UNION {[1..n -> Events] : n \in 0..MaxEvents} :
        /\ \A i \in DOMAIN r : RawInstant(r[i].start) < RawInstant(r[i].end)
        /\ \A i \in DOMAIN r : r[i].summary = OnCall(i)
        /\ \A i, j \in DOMAIN r :
              i < j => RawInstant(r[i].start) <= RawInstant(r[j].start)}

\* events().list(timeMin, timeMax, singleEvents, orderBy='startTime'): the
\* events that end after timeMin and start before timeMax (no upper bound
\* when timeMax is None), in the order of their start.
EventsList(items, timeMin, timeMax) ==
    LET listed(ev) == /\ RawInstant(ev.end) > timeMin
                      /\ \A m \in timeMax : RawInstant(ev.start) < m
    IN  SelectSeq(items, listed)

\* What a contacts query can come back with for one name.
DirOutcomes == {"one", "none", "many", "phones"}

PrimaryEmail(n) == CASE n = "ann" -> "ann@mail" [] OTHER -> "bob@mail"
PhoneNumber(n) == CASE n = "ann" -> "+46-1" [] OTHER -> "+46-2"

\* What may go wrong outside during one operation: each callback, the
\* listing of the events and the opening of the cache file succeeds or fails.
Envs ==
    {e \in [cal : {"ok", "fail"}, ppl : {"ok", "fail"}, list : {"ok", "fail"},
            open : {"ok", "fail"}] :
        e.cal = "fail" => e.ppl = "ok"}

\* Nothing goes wrong; and the choices left to an operation that may or may
\* not reach the outside.
OkEnv == [cal |-> "ok", ppl |-> "ok", list |-> "ok", open |-> "ok"]

EnvsFor(reaches_outside) == IF reaches_outside THEN Envs ELSE {OkEnv}

----------------------------------------------------------------------------
(* googios/utils.py and the Shift class.                                   *)

\* A datetime object and its textual form, as Shift.__init__ may be given.
DateTime(t) == <<"datetime", t>>
IsoText(t) == <<"str", t>>

\* dtfy: a text is parsed, a datetime is kept; both give the instant.
dtfy(something) == something[2]

\* Shift.__init__: "email or None", "phone or None".
Shift(start, end, name, email, phone) ==
    [start |-> dtfy(start), end |-> dtfy(end), name |-> name,
     email |-> IF email \in {None, ""} THEN None ELSE email,
     phone |-> IF phone \in {None, ""} THEN None ELSE phone]

\* The row csv.writer writes for Shift.as_tuple: str() of each field, with
\* None written as the empty string.
CsvField(x) == IF x = None THEN "" ELSE x

CsvRow(shift) ==
    <<IsoText(shift.start), IsoText(shift.end), shift.name,
      CsvField(shift.email), CsvField(shift.phone)>>

----------------------------------------------------------------------------
(* googios/utils.py: merge_intervals and find_overlaps.  An interval is a   *)
(* pair <<start, end>>; a list of intervals is a sequence.                  *)

MaxPoint == 3
MaxIntervals == 3

Points == 0..MaxPoint

\* The intervals and the lists of intervals the functions are given.
Intervals == {interval \in Points \X Points : interval[1] <= interval[2]}

IntervalLists == UNION {[1..n -> Intervals] : n \in 0..MaxIntervals}

min(a, b) == IF a <= b THEN a ELSE b

max(a, b) == IF a >= b THEN a ELSE b

\* The order Python gives tuples: by the first element, then by the second.
TupleLeq(a, b) == a[1] < b[1] \/ (a[1] = b[1] /\ a[2] <= b[2])

\* sorted(intervals), list.sort()
RECURSIVE sorted(_)
sorted(seq) ==
    LET least(s) == CHOOSE i \in DOMAIN s : \A j \in DOMAIN s : TupleLeq(s[i], s[j])
        without(s, i) == [k \in 1..(Len(s) - 1) |-> IF k < i THEN s[k] ELSE s[k + 1]]
        pick(s, i) == <<s[i]>> \o sorted(without(s, i))
    IN  IF seq = <<>> THEN <<>> ELSE pick(seq, least(seq))

\* The test with the touching intervals left apart.
touching_strictly(old, new) ==
    \/ old[1] <= new[1] /\ new[1] < old[2]
    \/ old[1] < new[2] /\ new[2] <= old[2]

\* "old[0] <= new[0] <= old[1] or old[0] <= new[1] <= old[1]"
touching(old, new) ==
    \/ old[1] <= new[1] /\ new[1] <= old[2]
    \/ old[1] <= new[2] /\ new[2] <= old[2]

\* merged keeping the end of the interval it replaces.
merged_keeps_end(old, new) == <<min(old[1], new[1]), new[2]>>

\* "merged = (min(old[0], new[0]), max(old[1], new[1]))"
merged(old, new) == <<min(old[1], new[1]), max(old[2], new[2])>>

\* The body of the while loop: old replaces, merged, the first interval of
\* new_intervals it touches, or is appended.
merge_one(new_intervals, old) ==
    LET hits == {counter \in DOMAIN new_intervals : touching(old, new_intervals[counter])}
        first(S) == CHOOSE counter \in S : \A other \in S : counter <= other
        replace(counter) == [new_intervals EXCEPT ![counter] = merged(old, @)]
    IN  IF hits = {} THEN Append(new_intervals, old) ELSE replace(first(hits))

\* The while loop: sorted_intervals.pop() takes the last interval.
RECURSIVE merge_loop(_, _)
merge_loop(sorted_intervals, new_intervals) ==
    IF sorted_intervals = <<>>
    THEN new_intervals
    ELSE merge_loop(SubSeq(sorted_intervals, 1, Len(sorted_intervals) - 1),
                    merge_one(new_intervals, sorted_intervals[Len(sorted_intervals)]))

\* merge_intervals taking the list in the order given, in a single pass.
merge_intervals_as_given(intervals) == sorted(merge_loop(intervals, <<>>))

\* merge_intervals in a single pass.
merge_intervals_one_pass(intervals) == sorted(merge_loop(sorted(intervals), <<>>))

\* merge_intervals: one pass, and again until a pass changes nothing.
RECURSIVE merge_intervals(_)
merge_intervals(intervals) ==
    LET again(new_intervals) ==
            IF intervals = new_intervals
            THEN new_intervals
            ELSE merge_intervals(new_intervals)
    IN  again(sorted(merge_loop(sorted(intervals), <<>>)))

\* takewhile letting through an interval that starts where analysed ends.
overlapping_or_touching(analysed, sorted_intervals) ==
    LET n == CHOOSE n \in 0..Len(sorted_intervals) :
                /\ \A k \in 1..n : sorted_intervals[k][1] <= analysed[2]
                /\ n < Len(sorted_intervals) => sorted_intervals[n + 1][1] > analysed[2]
    IN  SubSeq(sorted_intervals, 1, n)

\* "takewhile(lambda i: i[0] < analysed[1], sorted_intervals)"
overlapping(analysed, sorted_intervals) ==
    LET n == CHOOSE n \in 0..Len(sorted_intervals) :
                /\ \A k \in 1..n : sorted_intervals[k][1] < analysed[2]
                /\ n < Len(sorted_intervals) => sorted_intervals[n + 1][1] >= analysed[2]
    IN  SubSeq(sorted_intervals, 1, n)

\* The while loop of find_overlaps: what analysed shares with each of the
\* intervals that follow it, then the same for the next interval.
RECURSIVE overlaps_from(_, _)
overlaps_from(analysed, sorted_intervals) ==
    LET cut(interval) == <<interval[1], min(interval[2], analysed[2])>>
        found(some) == [k \in DOMAIN some |-> cut(some[k])]
    IN  found(overlapping(analysed, sorted_intervals))
        \o (IF sorted_intervals = <<>>
            THEN <<>>
            ELSE overlaps_from(Head(sorted_intervals), Tail(sorted_intervals)))

\* find_overlaps: sorted_intervals.pop(0) raises IndexError on an empty list.
find_overlaps(intervals) ==
    LET scan(sorted_intervals) ==
            merge_intervals(overlaps_from(Head(sorted_intervals), Tail(sorted_intervals)))
    IN  IF intervals = <<>>
        THEN [raised |-> {"IndexError"}, value |-> <<>>]
        ELSE [raised |-> {}, value |-> scan(sorted(intervals))]

----------------------------------------------------------------------------
(* googios/calendars.py                                                    *)

\* Calendar.fix_all_day_long_events: something['dateTime'] raises KeyError
\* when the key is missing.
fix_all_day_long_events(something) ==
    IF "dateTime" \notin DOMAIN something
    THEN [raised |-> TRUE, value |-> 0]
    ELSE IF something.dateTime # {}
    THEN [raised |-> FALSE, value |-> Elem(something.dateTime)]
    ELSE [raised |-> FALSE, value |-> Elem(something.date) + all_day_offset]

\* Calendar.get_events: "min_end or self.min_end", "max_start or
\* self.max_start"; the listing may fail, and so may the conversion of an
\* event.
get_events(min_end_, max_start_, env) ==
    LET timeMin == IF min_end_ = {} THEN min_end ELSE Elem(min_end_)
        timeMax == IF max_start_ = {} THEN max_start ELSE max_start_
        fix(event) ==
            [start |-> fix_all_day_long_events(event.start),
             end |-> fix_all_day_long_events(event.end),
             fuzzy_name |-> event.summary]
        Event(fixed) ==
            [start |-> fixed.start.value, end |-> fixed.end.value,
             fuzzy_name |-> fixed.fuzzy_name]
        ret(fixed) ==
            IF \E i \in DOMAIN fixed : fixed[i].start.raised \/ fixed[i].end.raised
            THEN [raised |-> TRUE, events |-> <<>>]
            ELSE [raised |-> FALSE,
                  events |-> [i \in DOMAIN fixed |-> Event(fixed[i])]]
        items(data_) == [i \in DOMAIN data_ |-> fix(data_[i])]
    IN  IF env.list = "fail"
        THEN [raised |-> TRUE, events |-> <<>>]
        ELSE ret(items(EventsList(gcal, timeMin, timeMax)))

----------------------------------------------------------------------------
(* googios/contacts.py                                                     *)

\* Person leaving the process, as it does for the phone numbers, when no
\* entry or several entries match.
Person_exits(name) ==
    CASE contacts[name] = "one" ->
            [raised |-> {}, email |-> PrimaryEmail(name), phone |-> PhoneNumber(name)]
      [] OTHER ->
            [raised |-> {"AttributeError"}, email |-> None, phone |-> None]

\* Person.__init__ / Person._execute_query for one name: no entry or several
\* entries raise ValueError; one entry whose phone numbers are not exactly
\* one reaches "self.phone_number", an attribute Person does not have.
Person(name) ==
    CASE contacts[name] = "one" ->
            [raised |-> {}, email |-> PrimaryEmail(name), phone |-> PhoneNumber(name)]
      [] contacts[name] \in {"none", "many"} ->
            [raised |-> {"ValueError"}, email |-> None, phone |-> None]
      [] OTHER ->
            [raised |-> {"AttributeError"}, email |-> None, phone |-> None]

----------------------------------------------------------------------------
(* googios/roster.py: the Roster.  A method is an operator from the object *)
(* (self, a record of the fields a method may change, with the log of what *)
(* the operation did so far) to the object it leaves.                      *)

Self ==
    [data |-> _data, calendar |-> calendar, ppl_client |-> ppl_client,
     file |-> cache_file, trace |-> <<>>, stale |-> {}, load |-> {},
     fetch |-> {}]

Did(self, what) == [self EXCEPT !.trace = Append(@, what)]

\* Roster.cache_timestamp
cache_timestamp(file) == IF file = {} THEN {} ELSE {Elem(file).mtime}

\* stale with ">=" for ">".
stale_at_timeout(file) ==
    IF cache_timestamp(file) = {}
    THEN TRUE
    ELSE (now - Elem(cache_timestamp(file))) * MinutesPerHour >= cache_timeout

\* Roster.stale: timedelta(minutes=cache_timeout) against now - timestamp,
\* both brought to minutes.
stale(file) ==
    IF cache_timestamp(file) = {}
    THEN TRUE
    ELSE (now - Elem(cache_timestamp(file))) * MinutesPerHour > cache_timeout

\* Roster._get_from_google: the connection block swallows what the callbacks
\* raise; the rest raises to the caller.
_get_from_google(self, start, end, env) ==
    LET connected == env.cal = "ok" /\ env.ppl = "ok"
        clbks == IF env.cal = "ok"
                 THEN <<"cal_service_clbk", "ppl_client_clbk">>
                 ELSE <<"cal_service_clbk">>
        connect(s) ==
            [s EXCEPT !.trace = @ \o clbks,
                      !.calendar = IF connected THEN {"Calendar"} ELSE @,
                      !.ppl_client = IF connected THEN {"client"} ELSE @]
        contacts_(person) ==
            IF person.raised = {}
            THEN <<person.email, person.phone>>
            ELSE <<None, None>>
        row(event, contacts_of) ==
            Shift(DateTime(event.start), DateTime(event.end),
                  event.fuzzy_name, contacts_of[1], contacts_of[2])
        shift(event) == row(event, contacts_(Person(event.fuzzy_name)))
        build(s, events) ==
            IF events = <<>>
            THEN [self |-> [s EXCEPT !.fetch = {"ok"}], rows |-> <<>>]
            ELSE IF \E i \in DOMAIN events :
                        Person(events[i].fuzzy_name).raised = {"AttributeError"}
            THEN [self |-> [Did(s, "GetContacts") EXCEPT !.fetch = {"raised"}],
                  rows |-> <<>>]
            ELSE [self |-> [Did(s, "GetContacts") EXCEPT !.fetch = {"ok"}],
                  rows |-> [i \in DOMAIN events |-> shift(events[i])]]
        fetch(s, got) ==
            IF got.raised
            THEN [self |-> [s EXCEPT !.fetch = {"raised"}], rows |-> <<>>]
            ELSE build(s, got.events)
        events_of(s) ==
            IF s.calendar = {}
            THEN [self |-> [s EXCEPT !.fetch = {"raised"}], rows |-> <<>>]
            ELSE fetch(Did(s, "get_events"), get_events(start, end, env))
    IN  events_of(connect(self))

\* Roster._save_cache
_save_cache(self) ==
    LET writerows(shifts) == [i \in DOMAIN shifts |-> CsvRow(shifts[i])]
    IN  [Did(self, "_save_cache") EXCEPT
            !.file = {[rows |-> writerows(Elem(self.data)), mtime |-> now]}]

\* The shifts csv.reader and Shift(*row) make of the rows of a file.
Loaded(file) ==
    LET shift(row) == Shift(row[1], row[2], row[3], row[4], row[5])
        data_of(reader) == [i \in DOMAIN reader |-> shift(reader[i])]
    IN  data_of(Elem(file).rows)

\* load_cache taking whatever the file holds.
load_cache_unchecked(self, env) ==
    IF self.file = {} \/ env.open = "fail"
    THEN [Did(self, "load_cache") EXCEPT !.load = {"IOError"}]
    ELSE [Did(self, "load_cache") EXCEPT !.load = {"ok"}, !.data = {Loaded(self.file)}]

\* Roster.load_cache
load_cache(self, env) ==
    LET check(s, data) ==
            IF data = <<>>
            THEN [s EXCEPT !.load = {"ValueError"}]
            ELSE IF data[1].start > min_end
            THEN [s EXCEPT !.load = {"ValueError"}]
            ELSE [s EXCEPT !.load = {"ok"}, !.data = {data}]
    IN  IF self.file = {} \/ env.open = "fail"
        THEN [Did(self, "load_cache") EXCEPT !.load = {"IOError"}]
        ELSE check(Did(self, "load_cache"), Loaded(self.file))

\* update_cache dropping the data it had when the retrieval fails.
update_cache_forgets(self, env) ==
    LET set(got) ==
            IF got.self.fetch = {"raised"}
            THEN [got.self EXCEPT !.data = {}]
            ELSE _save_cache([got.self EXCEPT !.data = {got.rows}])
    IN  set(_get_from_google(Did(self, "update_cache"), {}, {}, env))

\* update_cache saving the data it had, before the new data are set.
update_cache_saves_old(self, env) ==
    LET set(got) ==
            IF got.self.fetch = {"raised"}
            THEN got.self
            ELSE IF self.data = {}
            THEN _save_cache([got.self EXCEPT !.data = {got.rows}])
            ELSE [_save_cache(got.self) EXCEPT !.data = {got.rows}]
    IN  set(_get_from_google(Did(self, "update_cache"), {}, {}, env))

\* Roster.update_cache: what the retrieval raises is logged and swallowed.
update_cache(self, env) ==
    LET set(got) ==
            IF got.self.fetch = {"raised"}
            THEN got.self
            ELSE _save_cache([got.self EXCEPT !.data = {got.rows}])
    IN  set(_get_from_google(Did(self, "update_cache"), {}, {}, env))

\* _init_data trying the cache before it looks at its age.
_init_data_loads_first(self, env) ==
    LET loaded(s) == IF s.load = {"ok"} THEN s ELSE update_cache(s, env)
    IN  loaded(load_cache([Did(self, "stale") EXCEPT
                               !.stale = {stale(self.file)}], env))

\* _init_data refreshing whatever the age of the cache.
_init_data_refreshes(self, env) ==
    update_cache(load_cache([Did(self, "stale") EXCEPT
                                !.stale = {stale(self.file)}], env), env)

\* Roster._init_data
_init_data(self, env) ==
    LET loaded(s) == IF s.load = {"ok"} THEN s ELSE update_cache(s, env)
        init(s) == IF s.stale = {TRUE}
                   THEN update_cache(s, env)
                   ELSE loaded(load_cache(s, env))
    IN  init([Did(self, "stale") EXCEPT !.stale = {stale(self.file)}])

\* data initialising on every read.
data_always_inits(self, env) == _init_data(self, env)

\* Roster.data: the object after the property was read; its data field is
\* the value the property returns.
data(self, env) ==
    IF self.data = {} THEN _init_data(self, env) ELSE self

\* The test Roster.query applies to the range asked for.
OutOfScope(start, end) ==
    start < min_end \/ \E m \in max_start : end > m

\* What an operation gives back: the object it leaves, whether it raised,
\* and the shifts it returned.  Iterating over data that are None raises.
Fetched(got) ==
    [self |-> got.self, raised |-> got.self.fetch = {"raised"}, ret |-> got.rows]

Raised(self) == [self |-> self, raised |-> TRUE, ret |-> <<>>]

Returned(self, ret) == [self |-> self, raised |-> FALSE, ret |-> ret]

\* query with a closed range: "s.end >= start and s.start <= end".
query_closed(self, start, end, env) ==
    LET func(s) == s.end >= start /\ s.start <= end
        shifts(s1) == IF s1.data = {}
                      THEN Raised(s1)
                      ELSE Returned(s1, SelectSeq(Elem(s1.data), func))
    IN  IF OutOfScope(start, end)
        THEN Fetched(_get_from_google(self, {start}, {end}, env))
        ELSE shifts(data(self, env))

\* query keeping what it fetched outside the window, as update_cache does.
query_caches(self, start, end, env) ==
    LET func(s) == s.end > start /\ s.start < end
        shifts(s1) == IF s1.data = {}
                      THEN Raised(s1)
                      ELSE Returned(s1, SelectSeq(Elem(s1.data), func))
        cached(got) == IF got.self.fetch = {"raised"}
                       THEN Raised(got.self)
                       ELSE Returned(_save_cache([got.self EXCEPT !.data = {got.rows}]),
                                     got.rows)
    IN  IF OutOfScope(start, end)
        THEN cached(_get_from_google(self, {start}, {end}, env))
        ELSE shifts(data(self, env))

\* Roster.query
query(self, start, end, env) ==
    LET func(s) == s.end > start /\ s.start < end
        shifts(s1) == IF s1.data = {}
                      THEN Raised(s1)
                      ELSE Returned(s1, SelectSeq(Elem(s1.data), func))
    IN  IF OutOfScope(start, end)
        THEN Fetched(_get_from_google(self, {start}, {end}, env))
        ELSE shifts(data(self, env))

\* current with a shift no longer on duty at the instant it ends.
current_half_open(self, env) ==
    LET frozen_instant == now
        on_duty(shift) == shift.start <= frozen_instant /\ frozen_instant < shift.end
        ret(s1) == IF s1.data = {}
                   THEN Raised(s1)
                   ELSE Returned(s1, SelectSeq(Elem(s1.data), on_duty))
    IN  ret(data(self, env))

\* Roster.current
current(self, env) ==
    LET frozen_instant == now
        on_duty(shift) == shift.start <= frozen_instant /\ frozen_instant <= shift.end
        ret(s1) == IF s1.data = {}
                   THEN Raised(s1)
                   ELSE Returned(s1, SelectSeq(Elem(s1.data), on_duty))
    IN  ret(data(self, env))

\* Roster.table: the empty text when the data are None, else a line for
\* each shift, unicode() of each of its fields.
table(self, env) ==
    LET line(shift) == <<IsoText(shift.start), IsoText(shift.end), shift.name,
                         shift.email, shift.phone>>
        lines(s2) == Returned(s2, [i \in DOMAIN Elem(s2.data) |-> line(Elem(s2.data)[i])])
        ret(s1) == IF s1.data = {} THEN Returned(s1, <<>>) ELSE lines(data(s1, env))
    IN  ret(data(self, env))

\* Roster.daterange: "range(int((end_date - start_date).days))".
daterange(start_date, end_date) ==
    [n \in 1..(end_date - start_date) |-> start_date + (n - 1)]

\* Roster.report as googios.report calls it, with two datetime objects: its
\* first statement, "date_from.split", asks them for an attribute they do
\* not have, and stands before the try block.
report(self, date_from, date_to) == Raised(self)

\* runway taking the end of the last stretch of coverage.
runway_to_last(self, env) ==
    LET ends_after(shift) == shift.end > now
        intervals(shifts) == [i \in DOMAIN shifts |-> <<shifts[i].start, shifts[i].end>>]
        until(merged_) == IF merged_ = <<>> \/ merged_[1][1] > now
                          THEN now
                          ELSE merged_[Len(merged_)][2]
        ret(s1) == IF s1.data = {}
                   THEN Raised(s1)
                   ELSE Returned(s1, <<until(merge_intervals(
                            intervals(SelectSeq(Elem(s1.data), ends_after))))>>)
    IN  ret(data(self, env))

\* Roster.runway: the shifts that end after now, merged; now when the first
\* stretch starts after now, else the end of the first stretch.
runway(self, env) ==
    LET ends_after(shift) == shift.end > now
        intervals(shifts) == [i \in DOMAIN shifts |-> <<shifts[i].start, shifts[i].end>>]
        until(merged_) == IF merged_ = <<>> \/ merged_[1][1] > now
                          THEN now
                          ELSE merged_[1][2]
        ret(s1) == IF s1.data = {}
                   THEN Raised(s1)
                   ELSE Returned(s1, <<until(merge_intervals(
                            intervals(SelectSeq(Elem(s1.data), ends_after))))>>)
    IN  ret(data(self, env))

----------------------------------------------------------------------------
(* The state machine: one process at a time constructs a Roster and calls  *)
(* its operations, taking the result of one before it calls the next; the  *)
(* clock advances between operations; the cache file outlives the process. *)

\* What is kept of an operation: its name and arguments, whether it raised,
\* what it returned, and the log of the object it left.
Done(op, start, end, raised, ret, self) ==
    [op |-> op, start |-> start, end |-> end, raised |-> raised, ret |-> ret,
     trace |-> self.trace, stale |-> self.stale, load |-> self.load,
     fetch |-> self.fetch]

Idle == Done("idle", {}, {}, FALSE, <<>>, [Self EXCEPT !.data = {}])

Leave(self) ==
    /\ _data' = self.data
    /\ calendar' = self.calendar
    /\ ppl_client' = self.ppl_client
    /\ cache_file' = self.file
    /\ UNCHANGED <<now, min_end, max_start, all_day_offset, cache_timeout,
                   gcal, contacts, utils_vars, file_vars>>

\* No call of an interval function is under way, and no file access.
NoResult == [op |-> "none", raised |-> {}, value |-> <<>>]
NotSaving == [pc |-> "idle", old |-> {}, raised |-> {}]

NoUtils == given = <<>> /\ result = NoResult
NoFileAccess == saving = NotSaving /\ loading = {}

\* A process whose reads of the data have not refreshed, loaded or saved.
NoRun == [refresh |-> 0, load |-> 0, save |-> 0]

\* No call of get_events is under way.
NotPaging == [pc |-> "idle", page_token |-> {}, ret |-> 0]

\* The arguments googios.get_roster may give for min_end and max_start.
MinEnds == {{}, {0}}
MaxStarts == {{}, {MaxTime - 1}}

\* The directories the calendar's names are looked up in: one of the two
\* names has one entry; the other has none, or several.
Directories ==
    {[n \in Names |-> IF n = "ann" THEN "one" ELSE "none"],
     [n \in Names |-> IF n = "ann" THEN "many" ELSE "one"]}

\* Roster.__init__: "min_end or self.now", nothing connected, no data.
Construct(min_end_, max_start_) ==
    /\ min_end' = IF min_end_ = {} THEN now ELSE Elem(min_end_)
    /\ max_start' = max_start_
    /\ _data' = {}
    /\ calendar' = {}
    /\ ppl_client' = {}

Init ==
    /\ now = 0
    /\ all_day_offset \in AllDayOffsets
    /\ cache_timeout \in CacheTimeouts
    /\ cache_file = {}
    /\ gcal \in Calendars
    /\ contacts \in Directories
    /\ min_end = now
    /\ max_start \in MaxStarts
    /\ _data = {}
    /\ calendar = {}
    /\ ppl_client = {}
    /\ last = Idle
    /\ NoUtils
    /\ NoFileAccess
    /\ run = NoRun
    /\ paging = NotPaging

\* A new process (googios.main, get_roster) builds its Roster.
NewProcess ==
    /\ last = Idle
    /\ \E min_end_ \in MinEnds, max_start_ \in MaxStarts :
          Construct(min_end_, max_start_)
    /\ UNCHANGED <<now, all_day_offset, cache_timeout, cache_file, gcal,
                   contacts, last, utils_vars, file_vars, run, paging>>

\* Time passes.
Tick ==
    /\ last = Idle
    /\ now < MaxTime
    /\ now' = now + 1
    /\ UNCHANGED <<min_end, max_start, all_day_offset, cache_timeout,
                   _data, calendar, ppl_client, cache_file, gcal, contacts,
                   last, utils_vars, file_vars, run, paging>>

\* The caller has taken the result of the operation.
Return ==
    /\ last # Idle
    /\ last' = Idle
    /\ UNCHANGED <<now, min_end, max_start, all_day_offset, cache_timeout,
                   _data, calendar, ppl_client, cache_file, gcal, contacts,
                   utils_vars, file_vars, run, paging>>

\* The operation is over: the object is as it left it, and the caller holds
\* what it gave back.
Answer(op, start, end, res) ==
    /\ Leave(res.self)
    /\ last' = Done(op, start, end, res.raised, res.ret, res.self)
    /\ UNCHANGED <<run, paging>>

UpdateCache ==
    /\ last = Idle
    /\ \E env \in Envs :
          Answer("update_cache", {}, {}, Returned(update_cache(Self, env), <<>>))

\* googios.query handing every timespan to the roster.
Query_unvalidated ==
    /\ last = Idle
    /\ \E start \in Times, end \in Times :
        \E env \in EnvsFor(OutOfScope(start, end) \/ _data = {}) :
          Answer("query", {start}, {end}, query(Self, start, end, env))

\* googios.query, the "query" sub-command: a negative timespan exits before
\* the roster is asked.
Query ==
    /\ last = Idle
    /\ \E start \in Times, end \in Times :
        \E env \in EnvsFor(start <= end /\ (OutOfScope(start, end) \/ _data = {})) :
          IF end < start
          THEN Answer("exit", {start}, {end}, Raised(Self))
          ELSE Answer("query", {start}, {end}, query(Self, start, end, env))

Current ==
    /\ last = Idle
    /\ \E env \in EnvsFor(_data = {}) :
          Answer("current", {}, {}, current(Self, env))

\* The days a report may be asked for.
MaxDay == 1
Days == 0..MaxDay

\* googios.report with <start> and <end>, the "report" sub-command: a
\* negative timespan exits before the roster is asked.
Report ==
    /\ last = Idle
    /\ \E start \in Days, end \in Days :
          IF start > end
          THEN Answer("exit", {start}, {end}, Raised(Self))
          ELSE Answer("report", {start}, {end}, report(Self, start, end))

\* googios.runway, the "runway" sub-command.
Runway ==
    /\ last = Idle
    /\ \E env \in EnvsFor(_data = {}) :
          Answer("runway", {}, {}, runway(Self, env))

Next ==
    \/ NewProcess
    \/ Tick
    \/ Return
    \/ UpdateCache
    \/ Query
    \/ Current
    \/ Report
    \/ Runway

Spec == Init /\ [][Next]_vars

----------------------------------------------------------------------------
(* The callers of the interval functions.                                   *)

\* A caller of the interval functions: it holds a list and calls one of them.
InitUtils ==
    /\ now = 0
    /\ all_day_offset = 0
    /\ cache_timeout = MinutesPerHour
    /\ cache_file = {}
    /\ gcal = <<>>
    /\ contacts \in Directories
    /\ min_end = now
    /\ max_start = {}
    /\ _data = {}
    /\ calendar = {}
    /\ ppl_client = {}
    /\ last = Idle
    /\ given \in IntervalLists
    /\ result = NoResult
    /\ NoFileAccess
    /\ run = NoRun
    /\ paging = NotPaging

roster_vars == <<now, min_end, max_start, all_day_offset, cache_timeout,
                 _data, calendar, ppl_client, cache_file, gcal, contacts, last,
                 run, paging>>

MergeIntervals ==
    /\ result = NoResult
    /\ result' = [op |-> "merge_intervals", raised |-> {},
                  value |-> merge_intervals(given)]
    /\ UNCHANGED <<roster_vars, given, file_vars>>

FindOverlaps ==
    /\ result = NoResult
    /\ result' = [op |-> "find_overlaps"] @@ find_overlaps(given)
    /\ UNCHANGED <<roster_vars, given, file_vars>>

NextUtils ==
    \/ MergeIntervals
    \/ FindOverlaps

SpecUtils == InitUtils /\ [][NextUtils]_vars

----------------------------------------------------------------------------
(* The cache file between two processes: one is inside _save_cache, one    *)
(* opens the file to load it.  open(fname, 'wb') empties the file at once, *)
(* the rows reach it one after the other, and nothing stops a process that *)
(* opens it for reading in between.                                        *)

\* csv.writer is built with delimiter='\t', quoting=csv.QUOTE_NONE and no
\* escapechar: a field holding the delimiter or the quote character cannot
\* be written.  Of the texts below, these hold one.
NeedEscape == {"al\tice", "jo\"e"}

\* writer.writerow for one shift: raises csv.Error, or gives the row.
writerow(shift) ==
    [raised |-> \/ shift.name \in NeedEscape
                \/ CsvField(shift.email) \in NeedEscape
                \/ CsvField(shift.phone) \in NeedEscape,
     row |-> CsvRow(shift)]

\* The shifts a Roster may hold when it saves them.
SavedShifts ==
    {Shift(DateTime(0), DateTime(MaxTime), name, email, phone) :
        name \in {"ann", "jo\"e"}, email \in {None, "ann@mail"},
        phone \in {None, "+46-1"}}

ShiftLists == UNION {[1..n -> SavedShifts] : n \in 1..MaxEvents}

\* The files an earlier save has left: none, or the rows of a list.
SavedFiles ==
    {{}} \cup {{[rows |-> [i \in DOMAIN shifts |-> CsvRow(shifts[i])], mtime |-> 0]} :
                  shifts \in {l \in ShiftLists : \A i \in DOMAIN l : ~writerow(l[i]).raised}}

InitSave ==
    /\ now = 0
    /\ all_day_offset = 0
    /\ cache_timeout = MinutesPerHour
    /\ cache_file \in SavedFiles
    /\ gcal = <<>>
    /\ contacts \in Directories
    /\ min_end = now
    /\ max_start = {}
    /\ _data \in {{shifts} : shifts \in ShiftLists}
    /\ calendar = {}
    /\ ppl_client = {}
    /\ last = Idle
    /\ NoUtils
    /\ NoFileAccess
    /\ run = NoRun
    /\ paging = NotPaging

\* "with open(self.cache_fname, 'wb') as file_"
SaveOpen ==
    /\ saving.pc = "idle"
    /\ saving' = [pc |-> "writing", old |-> cache_file, raised |-> {}]
    /\ cache_file' = {[rows |-> <<>>, mtime |-> now]}
    /\ UNCHANGED <<now, min_end, max_start, all_day_offset, cache_timeout, _data,
                   calendar, ppl_client, gcal, contacts, last, utils_vars, loading,
                   run, paging>>

\* writer.writerows: the next row reaches the file, or the writer raises
\* and the file is closed with the rows it has.
SaveWriterow ==
    /\ saving.pc = "writing"
    /\ Len(Elem(cache_file).rows) < Len(Elem(_data))
    /\ LET next == writerow(Elem(_data)[Len(Elem(cache_file).rows) + 1])
       IN  IF next.raised
           THEN /\ saving' = [saving EXCEPT !.pc = "done", !.raised = {"csv.Error"}]
                /\ UNCHANGED cache_file
           ELSE /\ cache_file' = {[Elem(cache_file) EXCEPT !.rows = Append(@, next.row)]}
                /\ UNCHANGED saving
    /\ UNCHANGED <<now, min_end, max_start, all_day_offset, cache_timeout, _data,
                   calendar, ppl_client, gcal, contacts, last, utils_vars, loading,
                   run, paging>>

\* The end of the with block.
SaveClose ==
    /\ saving.pc = "writing"
    /\ Len(Elem(cache_file).rows) = Len(Elem(_data))
    /\ saving' = [saving EXCEPT !.pc = "done"]
    /\ UNCHANGED <<roster_vars, utils_vars, loading>>

\* Another process is in load_cache: the file as it finds it.
LoadCache ==
    /\ loading = {}
    /\ loading' = {[file |-> cache_file]}
    /\ UNCHANGED <<roster_vars, utils_vars, saving>>

NextSave ==
    \/ SaveOpen
    \/ SaveWriterow
    \/ SaveClose
    \/ LoadCache

SpecSave == InitSave /\ [][NextSave]_vars

----------------------------------------------------------------------------
(* One process and its reads of the data inside the caching window, one    *)
(* after the other, with a count of what they made the Roster do.          *)

MaxRepeat == 2

\* How often an operation did one thing.
Count(trace, what) == Cardinality({i \in DOMAIN trace : trace[i] = what})

\* The count so far and the operation just done; it stops at MaxRepeat.
Counted(self) ==
    [refresh |-> min(MaxRepeat, run.refresh + Count(self.trace, "update_cache")),
     load |-> min(MaxRepeat, run.load + Count(self.trace, "load_cache")),
     save |-> min(MaxRepeat, run.save + Count(self.trace, "_save_cache"))]

\* The cache file the process finds: none, or one saved at the start.
RunFiles ==
    {{}, {[rows |-> <<CsvRow(Shift(DateTime(0), DateTime(1), "ann", None, None))>>,
           mtime |-> 0]}}

InitRun ==
    /\ now = 0
    /\ all_day_offset \in AllDayOffsets
    /\ cache_timeout \in CacheTimeouts
    /\ cache_file \in RunFiles
    /\ gcal \in Calendars
    /\ contacts \in Directories
    /\ min_end = now
    /\ max_start \in MaxStarts
    /\ _data = {}
    /\ calendar = {}
    /\ ppl_client = {}
    /\ last = Idle
    /\ NoUtils
    /\ NoFileAccess
    /\ run = NoRun
    /\ paging = NotPaging

\* The operation is over, and what it did is counted.
AnswerCounted(op, start, end, res) ==
    /\ Leave(res.self)
    /\ last' = Done(op, start, end, res.raised, res.ret, res.self)
    /\ run' = Counted(res.self)
    /\ UNCHANGED paging

RunCurrent ==
    /\ last = Idle
    /\ \E env \in EnvsFor(_data = {}) :
          AnswerCounted("current", {}, {}, current(Self, env))

\* Roster.query for a range inside the caching window.
RunQuery ==
    /\ last = Idle
    /\ \E start \in Times, end \in Times :
          /\ start <= end
          /\ ~OutOfScope(start, end)
          /\ \E env \in EnvsFor(_data = {}) :
                AnswerCounted("query", {start}, {end}, query(Self, start, end, env))

RunTable ==
    /\ last = Idle
    /\ \E env \in EnvsFor(_data = {}) :
          AnswerCounted("table", {}, {}, table(Self, env))

NextRun ==
    \/ RunCurrent
    \/ RunQuery
    \/ RunTable
    \/ Tick
    \/ Return

SpecRun == InitRun /\ [][NextRun]_vars

----------------------------------------------------------------------------
(* Calendar.get_events on what the service may hold: next to the timed     *)
(* events, whole-day events in either shape, with a dateTime that is null  *)
(* or with no dateTime at all.                                             *)

Shapes == Kinds \cup {"dateOnly"}

ServiceEvents ==
    {[start |-> Boundary(k, s), end |-> Boundary(k, e), summary |-> n] :
        k \in Shapes, s \in Times, e \in Times, n \in Names}

ServiceCalendars ==
    {r \in UNION {[1..n -> ServiceEvents] : n \in 0..MaxEvents} :
        /\ \A i \in DOMAIN r : RawInstant(r[i].start) < RawInstant(r[i].end)
        /\ \A i \in DOMAIN r : r[i].summary = OnCall(i)
        /\ \A i, j \in DOMAIN r :
              i < j => RawInstant(r[i].start) <= RawInstant(r[j].start)}

InitFix ==
    /\ now = 0
    /\ all_day_offset \in AllDayOffsets
    /\ cache_timeout = MinutesPerHour
    /\ cache_file = {}
    /\ gcal \in ServiceCalendars
    /\ contacts \in Directories
    /\ min_end = now
    /\ max_start = {}
    /\ _data = {}
    /\ calendar = {}
    /\ ppl_client = {}
    /\ last = Idle
    /\ NoUtils
    /\ NoFileAccess
    /\ run = NoRun
    /\ paging = NotPaging

\* calendar.get_events() over the whole window.
GetEvents ==
    /\ result = NoResult
    /\ LET got == get_events({}, {}, OkEnv)
       IN  result' = [op |-> "get_events",
                      raised |-> IF got.raised THEN {"KeyError"} ELSE {},
                      value |-> got.events]
    /\ UNCHANGED <<roster_vars, given, file_vars>>

NextFix ==
    \/ GetEvents

SpecFix == InitFix /\ [][NextFix]_vars

----------------------------------------------------------------------------
(* Calendar.get_events page by page.  Only the number of events collected  *)
(* is kept of ret; the service decides how many events a page holds, which *)
(* may be none, and whether it carries a token for the next page.          *)

CACHE_SIZE_HARD_LIMIT == 666
MaxPage == 2

\* The tokens the service hands out: the token of a page is not the token
\* that asked for it.
Tokens == {"page-a", "page-b"}

InitPages ==
    /\ now = 0
    /\ all_day_offset = 0
    /\ cache_timeout = MinutesPerHour
    /\ cache_file = {}
    /\ gcal = <<>>
    /\ contacts \in Directories
    /\ min_end = now
    /\ max_start = {}
    /\ _data = {}
    /\ calendar = {}
    /\ ppl_client = {}
    /\ last = Idle
    /\ NoUtils
    /\ NoFileAccess
    /\ run = NoRun
    /\ paging = [pc |-> "while", page_token |-> {}, ret |-> 0]

\* One turn of "while True": the page is asked for and either the request
\* raises or its events are appended to ret; the loop is left when the page
\* has no token or ret has reached the limit.
ListPage ==
    /\ paging.pc = "while"
    /\ \E execute \in {"ok", "fail"}, items \in 0..MaxPage,
          nextPageToken \in {{}} \cup {{t} : t \in Tokens \ paging.page_token} :
          paging' =
            IF execute = "fail"
            THEN [paging EXCEPT !.pc = "raised"]
            ELSE [pc |-> IF \/ nextPageToken = {}
                            \/ paging.ret + items >= CACHE_SIZE_HARD_LIMIT
                         THEN "return"
                         ELSE "while",
                  page_token |-> nextPageToken,
                  ret |-> paging.ret + items]
    /\ UNCHANGED <<now, min_end, max_start, all_day_offset, cache_timeout,
                   _data, calendar, ppl_client, cache_file, gcal, contacts, last,
                   utils_vars, file_vars, run>>

NextPages ==
    \/ ListPage

\* The loop keeps running: a turn that can be taken is taken.
SpecPages == InitPages /\ [][NextPages]_vars /\ WF_vars(ListPage)

----------------------------------------------------------------------------
(* What the properties below read off an operation.                        *)

Has(rec, what) == what \in Range(rec.trace)

\* The operation asked the roster for its data inside the caching window.
ReadsData(rec) ==
    \/ rec.op = "current"
    \/ rec.op = "query" /\ ~OutOfScope(Elem(rec.start), Elem(rec.end))

\* Whether load_cache accepts the shifts a load of the file gives.
ValidCache(file) ==
    /\ file # {}
    /\ Elem(file).rows # <<>>
    /\ Loaded(file)[1].start <= min_end

\* The calls that leave the process.
External == {"cal_service_clbk", "ppl_client_clbk", "get_events", "GetContacts"}

----------------------------------------------------------------------------
(* C1, as it is written: on the first read of the data of a Roster that   *)
(* has none, a stale cache leads to a refresh with no load before it; a    *)
(* cache that is not stale leads to a load, and to a refresh only when the *)
(* file was not found or held no row.                                      *)
C1_RefreshOnlyIfMissingOrEmpty ==
    [][(last = Idle /\ _data = {} /\ ReadsData(last')) =>
        /\ (stale(cache_file) =>
                /\ ~Has(last', "load_cache")
                /\ Has(last', "update_cache"))
        /\ (~stale(cache_file) =>
                /\ Has(last', "load_cache")
                /\ (Has(last', "update_cache") =>
                        \/ last'.load = {"IOError"}
                        \/ Elem(cache_file).rows = <<>>))
       ]_vars

(* C1, amended: on the first read of the data of a Roster that has none, a *)
(* stale cache leads to a refresh with no load before it; a cache that is  *)
(* not stale leads to a load, and to a refresh exactly when that load      *)
(* raised: the file could not be opened, held no row, or its first shift   *)
(* starts after min_end.                                                   *)
C1_PopulationProtocol ==
    [][(last = Idle /\ _data = {} /\ ReadsData(last')) =>
        /\ last'.stale = {stale(cache_file)}
        /\ last'.trace[1] = "stale"
        /\ (stale(cache_file) =>
                /\ ~Has(last', "load_cache")
                /\ last'.trace[2] = "update_cache")
        /\ (~stale(cache_file) =>
                /\ last'.trace[2] = "load_cache"
                /\ (Has(last', "update_cache") <=>
                        (last'.load = {"IOError"} \/ ~ValidCache(cache_file)))
                /\ (Has(last', "update_cache") => last'.trace[3] = "update_cache"))
       ]_vars

\* A read found the cache fresh, its load raised and the refresh followed.
C1_Witness ==
    /\ ReadsData(last)
    /\ last.stale = {FALSE}
    /\ last.load = {"ValueError"}
    /\ last.fetch = {"ok"}

(* C2: a refresh whose retrieval fails while a valid cache file exists     *)
(* leaves the Roster with the data a load of that file gives.              *)
C2_FallsBackToCache ==
    (/\ last.op \in {"query", "current", "update_cache"}
     /\ Has(last, "update_cache")
     /\ last.fetch = {"raised"}
     /\ ValidCache(cache_file))
        => _data = {Loaded(cache_file)}

(* C3: a refresh whose retrieval fails changes neither the data in memory  *)
(* nor the cache file, its rows and its modification time.                 *)
C3_FailedRefreshFrame ==
    [][(last = Idle /\ Has(last', "update_cache") /\ last'.fetch = {"raised"}) =>
        /\ _data' = _data
        /\ cache_file' = cache_file
       ]_vars

\* update_cache failed on a Roster that had data and a cache file.
C3_Witness ==
    /\ last.op = "update_cache"
    /\ last.fetch = {"raised"}
    /\ _data # {}
    /\ Elem(_data) # <<>>
    /\ cache_file # {}

(* C4: an operation whose refresh failed and that leaves the Roster        *)
(* without data ends by raising to its caller.                             *)
C4_NoDataIsFatal ==
    (/\ last.op \in {"query", "current", "update_cache"}
     /\ last.fetch = {"raised"}
     /\ _data = {})
        => last.raised

C6_Staleness ==
    [][(last = Idle /\ last'.stale # {}) =>
        last'.stale =
            {\/ cache_file = {}
             \/ (now - Elem(cache_file).mtime) * MinutesPerHour > cache_timeout}
       ]_vars

\* A cache whose age equals cache_timeout was found not stale.
C6_Witness ==
    /\ last.stale = {FALSE}
    /\ last.load = {"ok"}
    /\ cache_file # {}
    /\ (now - Elem(cache_file).mtime) * MinutesPerHour = cache_timeout

(* C7: a read of the data of a Roster that has data looks neither at the   *)
(* age of the cache nor at the file, and reaches nothing outside.          *)
C7_PopulatedIsFinal ==
    [][(last = Idle /\ _data # {} /\ ReadsData(last')) =>
        /\ last'.trace = <<>>
        /\ last'.stale = {}
        /\ _data' = _data
        /\ cache_file' = cache_file
       ]_vars

\* A read was answered from memory while the cache file was stale.
C7_Witness ==
    /\ ReadsData(last)
    /\ last.trace = <<>>
    /\ ~last.raised
    /\ _data # {}
    /\ cache_file # {}
    /\ stale(cache_file)

(* C8: a read that finds the cache fresh and loads it calls neither        *)
(* callback, nor the calendar, nor the contacts.                           *)
C8_FreshCacheStaysLocal ==
    [][(/\ last = Idle
        /\ ReadsData(last')
        /\ _data = {}
        /\ ~stale(cache_file)
        /\ ValidCache(cache_file)
        /\ last'.load # {"IOError"}) =>
        /\ Range(last'.trace) \cap External = {}
        /\ calendar' = calendar
        /\ ppl_client' = ppl_client
        /\ _data' = {Loaded(cache_file)}
       ]_vars

\* A read was answered from a fresh cache by a process that never connected.
C8_Witness ==
    /\ ReadsData(last)
    /\ last.load = {"ok"}
    /\ ~last.raised
    /\ calendar = {}

(* C9: a query inside the caching window returns, in their order, the      *)
(* shifts in memory that end after its start and start before its end.     *)
C9_QueryInWindow ==
    (last.op = "query" /\ ~last.raised
        /\ ~OutOfScope(Elem(last.start), Elem(last.end))) =>
        /\ _data # {}
        /\ LET overlaps(s) == s.end > Elem(last.start) /\ s.start < Elem(last.end)
           IN  last.ret = SelectSeq(Elem(_data), overlaps)

\* A query returned a shift and left out one that ends where the range starts.
C9_Witness ==
    /\ last.op = "query"
    /\ ~last.raised
    /\ ~OutOfScope(Elem(last.start), Elem(last.end))
    /\ last.ret # <<>>
    /\ _data # {}
    /\ \E i \in DOMAIN Elem(_data) : Elem(_data)[i].end = Elem(last.start)

(* C10: a query outside the caching window returns no shift that ends at   *)
(* or before its start, or starts at or after its end.                     *)
C10_QueryOutOfWindow ==
    (last.op = "query" /\ ~last.raised
        /\ OutOfScope(Elem(last.start), Elem(last.end))) =>
        \A i \in DOMAIN last.ret :
            /\ last.ret[i].end > Elem(last.start)
            /\ last.ret[i].start < Elem(last.end)

(* C11: a query outside the caching window leaves the data in memory, also *)
(* when there are none yet, and the cache file, its rows and its           *)
(* modification time, as they were.                                        *)
C11_QueryOutOfWindowFrame ==
    [][(/\ last = Idle
        /\ last'.op = "query"
        /\ OutOfScope(Elem(last'.start), Elem(last'.end))) =>
        /\ _data' = _data
        /\ cache_file' = cache_file
       ]_vars

\* A query outside the window returned shifts to a Roster that has no data,
\* next to a cache file written earlier.
C11_Witness ==
    /\ last.op = "query"
    /\ OutOfScope(Elem(last.start), Elem(last.end))
    /\ ~last.raised
    /\ last.ret # <<>>
    /\ _data = {}
    /\ cache_file # {}

(* C12: current returns, in their order, exactly the shifts in memory that *)
(* started at or before now and end at or after now.                       *)
C12_CurrentInclusive ==
    (last.op = "current" /\ ~last.raised) =>
        /\ _data # {}
        /\ LET on_duty(s) == s.start <= now /\ now <= s.end
           IN  last.ret = SelectSeq(Elem(_data), on_duty)

\* current returned both the shift that ends now and the one that starts now.
C12_Witness ==
    /\ last.op = "current"
    /\ ~last.raised
    /\ Len(last.ret) = 2
    /\ last.ret[1].end = now
    /\ last.ret[2].start = now

----------------------------------------------------------------------------
(* What the properties of the interval functions read off a list.  An      *)
(* instant is counted in halves, so that the time between two whole        *)
(* instants is covered time too.                                           *)

Covered(list) == UNION {(2 * list[i][1])..(2 * list[i][2]) : i \in DOMAIN list}

\* Each interval ends before the next one starts.
Apart(list) ==
    /\ \A i \in DOMAIN list : list[i][1] <= list[i][2]
    /\ \A i \in 1..(Len(list) - 1) : list[i][2] < list[i + 1][1]

(* C13: the list merge_intervals returns is in ascending order of start    *)
(* and each of its intervals ends strictly before the next one starts.     *)
C13_MergeSeparates ==
    result.op = "merge_intervals" => Apart(result.value)

\* Three intervals, two of which only touch, were merged into two.
C13_Witness ==
    /\ result.op = "merge_intervals"
    /\ Len(given) = MaxIntervals
    /\ Len(result.value) = 2
    /\ \E i, j \in DOMAIN given :
          given[i][1] < given[i][2] /\ given[i][2] = given[j][1] /\ given[j][1] < given[j][2]

(* C14: the instants the list merge_intervals returns covers are the       *)
(* instants the list it was given covers.                                  *)
C14_MergeKeepsCover ==
    (result.op = "merge_intervals" /\ given # <<>>) =>
        Covered(result.value) = Covered(given)

\* An interval that lies inside another one was merged away.
C14_Witness ==
    /\ result.op = "merge_intervals"
    /\ Len(result.value) < Len(given)
    /\ \E i, j \in DOMAIN given :
          given[i][1] < given[j][1] /\ given[j][2] < given[i][2]

(* C15: merge_intervals returns the same list for every order of the list  *)
(* it is given.                                                            *)
C15_MergeOrderIndependent ==
    result.op = "merge_intervals" =>
        \A p \in Permutations(DOMAIN given) :
            merge_intervals([i \in DOMAIN given |-> given[p[i]]]) = result.value

\* A list that is not sorted and holds one interval twice was merged.
C15_Witness ==
    /\ result.op = "merge_intervals"
    /\ Len(given) = MaxIntervals
    /\ given[1] = given[MaxIntervals]
    /\ given # sorted(given)
    /\ Len(result.value) < Len(given)

(* C16: merge_intervals returns its own result unchanged.                  *)
C16_MergeIdempotent ==
    result.op = "merge_intervals" =>
        merge_intervals(result.value) = result.value

\* A list was merged that a single pass does not merge completely.
C16_Witness ==
    /\ result.op = "merge_intervals"
    /\ merge_intervals_one_pass(given) # result.value

(* C17: what find_overlaps returns is in ascending order with its ranges   *)
(* apart; it covers what any two intervals of the list have in common      *)
(* beyond a single instant; and each of its instants lies in two intervals *)
(* of the list that do more than touch.                                    *)
C17_FindOverlaps ==
    (result.op = "find_overlaps" /\ result.raised = {}) =>
        /\ Apart(result.value)
        /\ \A i, j \in DOMAIN given :
              (i # j /\ max(given[i][1], given[j][1]) < min(given[i][2], given[j][2])) =>
                  Covered(<<<<max(given[i][1], given[j][1]),
                              min(given[i][2], given[j][2])>>>>) \subseteq Covered(result.value)
        /\ \A k \in Covered(result.value) :
              \E i, j \in DOMAIN given :
                  /\ i # j
                  /\ given[i][1] < given[j][2]
                  /\ given[j][1] < given[i][2]
                  /\ k \in Covered(<<given[i]>>) \cap Covered(<<given[j]>>)

\* Two intervals that overlap, and a third that only touches, gave one range.
C17_Witness ==
    /\ result.op = "find_overlaps"
    /\ given = <<<<0, 2>>, <<1, 3>>, <<3, 3>>>>
    /\ result.value = <<<<1, 2>>>>

(* C18: on an empty list both functions return an empty list and neither   *)
(* raises; on a single interval merge_intervals returns that interval and  *)
(* find_overlaps an empty list.                                            *)
C18_EmptyAndSingle ==
    /\ (result.op \in {"merge_intervals", "find_overlaps"} /\ given = <<>>) =>
            (result.raised = {} /\ result.value = <<>>)
    /\ (result.op = "merge_intervals" /\ Len(given) = 1) =>
            result.value = given
    /\ (result.op = "find_overlaps" /\ Len(given) = 1) =>
            (result.raised = {} /\ result.value = <<>>)

(* C19: a process that loads the cache while another one saves it finds    *)
(* the rows the file had before the save or the rows of the data being     *)
(* saved, all of them.                                                     *)
C19_ReaderSeesWholeFile ==
    (loading # {} /\ saving.pc # "idle") =>
        \/ Elem(loading).file = saving.old
        \/ /\ Elem(loading).file # {}
           /\ Elem(Elem(loading).file).rows =
                 [i \in DOMAIN Elem(_data) |-> CsvRow(Elem(_data)[i])]

(* C20: once a list of shifts has been saved, a load of the file gives the *)
(* same shifts in the same order, each with the same start, end, name,     *)
(* email and phone, an absent email or phone being absent again.           *)
C20_SaveLoadRoundTrip ==
    saving.pc = "done" =>
        /\ saving.raised = {}
        /\ Loaded(cache_file) = Elem(_data)

(* C21: a refresh that reached the directory, where every name has one     *)
(* entry, none or several, succeeds; it gives one shift for each event the *)
(* calendar lists, in their order; a shift whose name has no entry or      *)
(* several has neither email nor phone, and a shift whose name has one     *)
(* entry has the email and the phone of that entry.                        *)
C21_LookupFailureIsLocal ==
    [][(/\ last = Idle
        /\ Has(last', "update_cache")
        /\ Has(last', "GetContacts")
        /\ \A n \in Names : contacts[n] \in {"one", "none", "many"}) =>
        LET events == get_events({}, {}, OkEnv).events
        IN  /\ last'.fetch = {"ok"}
            /\ _data' # {}
            /\ Len(Elem(_data')) = Len(events)
            /\ \A i \in DOMAIN events :
                  LET shift == Elem(_data')[i]
                      found == contacts[events[i].fuzzy_name] = "one"
                  IN  /\ shift.name = events[i].fuzzy_name
                      /\ shift.start = events[i].start
                      /\ shift.end = events[i].end
                      /\ shift.email = IF found THEN PrimaryEmail(shift.name) ELSE None
                      /\ shift.phone = IF found THEN PhoneNumber(shift.name) ELSE None
       ]_vars

\* A refresh gave two shifts: one with the contacts found for its name, one
\* for a name that several entries match.
C21_Witness ==
    /\ last.op = "update_cache"
    /\ last.fetch = {"ok"}
    /\ _data # {}
    /\ Len(Elem(_data)) = 2
    /\ contacts[Elem(_data)[1].name] = "many"
    /\ Elem(_data)[1].email = None
    /\ Elem(_data)[2].email # None

(* C22: a report for the days start to end does not raise and gives one    *)
(* entry for each day, the last one included, in their order; the entry of *)
(* a day names, once each and in the order they are first found, those on  *)
(* duty between the start of the day and the start of the next, both moved *)
(* by all_day_offset hours.                                                *)
C22_ReportEveryDay ==
    (last.op = "report" /\ _data # {}) =>
        /\ ~last.raised
        /\ Len(last.ret) = Elem(last.end) - Elem(last.start) + 1
        /\ \A k \in DOMAIN last.ret :
              LET day == Elem(last.start) + (k - 1)
                  from == day * HoursPerDay + all_day_offset
                  on_duty(s) == s.end > from /\ s.start < from + HoursPerDay
                  shifts == SelectSeq(Elem(_data), on_duty)
                  first(name) == CHOOSE i \in DOMAIN shifts :
                                    /\ shifts[i].name = name
                                    /\ \A j \in 1..(i - 1) : shifts[j].name # name
                  people == last.ret[k][2]
              IN  /\ last.ret[k][1] = day
                  /\ Range(people) = {shifts[i].name : i \in DOMAIN shifts}
                  /\ \A i, j \in DOMAIN people :
                        i < j => first(people[i]) < first(people[j])

(* C23: what runway returns is now when no shift in memory started at or   *)
(* before now and ends at or after now; else it is the last instant up to  *)
(* which every instant from now on lies in a shift in memory.              *)
C23_Runway ==
    (last.op = "runway" /\ ~last.raised) =>
        /\ _data # {}
        /\ LET shifts == Elem(_data)
               cover == Covered([i \in DOMAIN shifts |-> <<shifts[i].start, shifts[i].end>>])
               covers_now == \E i \in DOMAIN shifts :
                                shifts[i].start <= now /\ now <= shifts[i].end
               unbroken(t) == \A h \in (2 * now)..(2 * t) : h \in cover
               ends == {now} \cup {shifts[i].end : i \in DOMAIN shifts}
           IN  /\ last.ret[1] \in ends
               /\ ~covers_now => last.ret[1] = now
               /\ covers_now =>
                     /\ last.ret[1] >= now
                     /\ unbroken(last.ret[1])
                     /\ \A t \in ends : (t >= now /\ unbroken(t)) => t <= last.ret[1]

\* Two shifts that follow each other without a hole gave the end of the
\* second one.
C23_Witness ==
    /\ last.op = "runway"
    /\ ~last.raised
    /\ _data # {}
    /\ Len(Elem(_data)) = 2
    /\ Elem(_data)[1].start <= now
    /\ Elem(_data)[1].end > now
    /\ Elem(_data)[1].end = Elem(_data)[2].start
    /\ last.ret = <<Elem(_data)[2].end>>

(* C24: a query or a report asked for a timespan whose end is before its   *)
(* start ends in an exit: nothing is returned, the roster did nothing (no  *)
(* look at the cache, no load, no call outside) and is as it was.          *)
C24_NegativeTimespanRejected ==
    [][(/\ last = Idle
        /\ last'.op \in {"query", "report", "exit"}
        /\ Elem(last'.end) < Elem(last'.start)) =>
        /\ last'.op = "exit"
        /\ last'.raised
        /\ last'.ret = <<>>
        /\ last'.trace = <<>>
        /\ last'.stale = {} /\ last'.load = {} /\ last'.fetch = {}
        /\ UNCHANGED <<_data, cache_file, calendar, ppl_client>>
       ]_vars

\* A negative timespan was turned down by a process that had no data yet
\* and a cache file it could have loaded.
C24_Witness ==
    /\ last.op = "exit"
    /\ Elem(last.end) < Elem(last.start)
    /\ _data = {}
    /\ cache_file # {}
    /\ ~stale(cache_file)

(* C25: the reads of the data one process makes inside the caching window, *)
(* however many, make the Roster refresh at most once, load the cache at   *)
(* most once and save it at most once.                                     *)
C25_AtMostOnce ==
    /\ run.refresh <= 1
    /\ run.load <= 1
    /\ run.save <= 1

(* C26: every call of get_events ends, whatever the pages the service      *)
(* gives; when it returns, the last page had no token or the events        *)
(* collected have reached the limit of 666.                                *)
C26_GetEventsTerminates ==
    /\ <>(paging.pc \in {"return", "raised"})
    /\ [](paging.pc = "return" =>
            (paging.page_token = {} \/ paging.ret >= CACHE_SIZE_HARD_LIMIT))

(* C27: get_events converts every event the service holds without raising; *)
(* a boundary with a time keeps its instant, a boundary that is a date     *)
(* becomes midnight of that date plus all_day_offset hours, the start and  *)
(* the end of an event alike.                                              *)
C27_AllDayConversion ==
    result.op = "get_events" =>
        /\ result.raised = {}
        /\ Len(result.value) = Len(gcal)
        /\ \A i \in DOMAIN result.value :
              LET timed(b) == "dateTime" \in DOMAIN b /\ b.dateTime # {}
                  instant(b) == IF timed(b)
                                THEN Elem(b.dateTime)
                                ELSE Elem(b.date) + all_day_offset
              IN  /\ result.value[i].start = instant(gcal[i].start)
                  /\ result.value[i].end = instant(gcal[i].end)
                  /\ result.value[i].fuzzy_name = gcal[i].summary

(* C28: a load of the cache succeeds only on a file that has a row and     *)
(* whose first row starts at or before min_end, and then the data are the  *)
(* shifts of the file; a load that fails, on a file that has no row, or    *)
(* starts too late, or cannot be opened, is followed at once by a refresh, *)
(* and the data are then what the refresh leaves: the shifts retrieved, or *)
(* what they were before the load when the retrieval fails.                *)
C28_LoadCacheAcceptance ==
    [][(last = Idle /\ Has(last', "load_cache")) =>
        LET at == CHOOSE i \in DOMAIN last'.trace : last'.trace[i] = "load_cache"
        IN  /\ ~ValidCache(cache_file) => last'.load \in {{"IOError"}, {"ValueError"}}
            /\ cache_file = {} => last'.load = {"IOError"}
            /\ last'.load = {"ok"} =>
                  /\ _data' = {Loaded(cache_file)}
                  /\ ~Has(last', "update_cache")
            /\ last'.load # {"ok"} =>
                  /\ at < Len(last'.trace)
                  /\ last'.trace[at + 1] = "update_cache"
                  /\ last'.fetch = {"raised"} => _data' = _data
                  /\ last'.fetch = {"ok"} =>
                        _data' = {_get_from_google(Self, {}, {}, OkEnv).rows}
       ]_vars

\* A fresh cache whose first shift starts after min_end was turned down, and
\* the refresh that followed failed: the Roster has no data.
C28_Witness ==
    /\ last.load = {"ValueError"}
    /\ last.fetch = {"raised"}
    /\ _data = {}
    /\ cache_file # {}
    /\ Elem(cache_file).rows # <<>>
    /\ Loaded(cache_file)[1].start > min_end

(* C29: once update_cache has set the data and its save is over, however   *)
(* it ended, the cache file exists and a load of it gives the data in      *)
(* memory.                                                                 *)
C29_MemoryIsFile ==
    (_data # {} /\ saving.pc = "done") =>
        /\ cache_file # {}
        /\ Len(Elem(cache_file).rows) = Len(Elem(_data))
        /\ Loaded(cache_file) = Elem(_data)

(* C30: the shifts in memory are in the order of their start, none         *)
(* starting before the one it follows.                                     *)
C30_SortedByStart ==
    _data # {} =>
        \A i, j \in DOMAIN Elem(_data) :
            i < j => Elem(_data)[i].start <= Elem(_data)[j].start

====
